---- MODULE Spec2Model ----
(***************************************************************************)
(* Weisfeiler-Lehman colour refinement of a pair of labelled graphs, as    *)
(* computed by runWLAlgorithm in src/services/wlAlgorithm.ts.              *)
(*                                                                         *)
(* Strings are sequences of UTF-16 code units, so that toString, parseInt, *)
(* template literals and the default (lexicographic) Array.prototype.sort  *)
(* are modelled by what they do.  A node id is a pair <<prefix, index>>    *)
(* standing for the string `${prefix}${index}`.                            *)
(***************************************************************************)
EXTENDS Integers, Sequences, FiniteSets, TLC

(***************************************************************************)
(* Bounds of the model.                                                    *)
(***************************************************************************)
MaxNodes == 3
MaxInitLabel == 2
MaxK == 2
MaxOrderTotal == 4
MaxLooseNodes == 2
MaxFullShuffle == 3
MaxCalls == 3
MaxCallNodes == 1

\* MAX_K of the application's constants.
MAX_K == 5

(***************************************************************************)
(* JavaScript strings and arrays.                                          *)
(***************************************************************************)
\* Code units of the characters the engine writes.
Ch == [lparen |-> 40, rparen |-> 41, comma |-> 44, zero |-> 48,
       lbrack |-> 91, rbrack |-> 93]

\* The text "Initial: " of the step-0 mapping list.
InitialPrefix == <<73, 110, 105, 116, 105, 97, 108, 58, 32>>

\* An array (a function on 1..n) and a map (a function on a set of keys),
\* built once, element by element.
Array(f) == f \o << >>
Map(f) == f @@ << >>

\* Number.prototype.toString of a non-negative integer.
RECURSIVE toString(_)
toString(n) ==
  IF n < 10 THEN <<Ch.zero + n>>
  ELSE toString(n \div 10) \o <<Ch.zero + (n % 10)>>

\* parseInt of a string of decimal digits.
RECURSIVE parseInt(_)
parseInt(s) ==
  IF Len(s) = 1 THEN s[1] - Ch.zero
  ELSE 10 * parseInt(SubSeq(s, 1, Len(s) - 1)) + (s[Len(s)] - Ch.zero)

\* s < t for strings: comparison by code units, a proper prefix is smaller.
RECURSIVE StrLess(_, _)
StrLess(s, t) ==
  IF Len(t) = 0 THEN FALSE
  ELSE IF Len(s) = 0 THEN TRUE
  ELSE IF s[1] # t[1] THEN s[1] < t[1]
  ELSE StrLess(Tail(s), Tail(t))

\* Array.prototype.join.
RECURSIVE Join(_, _)
Join(arr, sep) ==
  IF Len(arr) = 0 THEN <<>>
  ELSE IF Len(arr) = 1 THEN arr[1]
  ELSE arr[1] \o sep \o Join(Tail(arr), sep)

\* The comparators the engine sorts with: (a, b) => a - b on numbers,
\* (a, b) => parseInt(a) - parseInt(b) on labels, and the default comparison
\* of strings.
Less(cmp, a, b) ==
  CASE cmp = "number" -> a < b
    [] cmp = "parseInt" -> parseInt(a) < parseInt(b)
    [] cmp = "string" -> StrLess(a, b)

\* Array.prototype.sort (stable) under the comparator cmp.
SortBy(arr, cmp) ==
  LET n == Len(arr)
      rank == Array([i \in 1..n |->
                Cardinality({j \in 1..n :
                  Less(cmp, arr[j], arr[i])
                  \/ (~Less(cmp, arr[i], arr[j]) /\ j < i)}) + 1])
  IN Array([p \in 1..n |-> arr[CHOOSE i \in 1..n : rank[i] = p]])

\* Array.from(new Set(arr)): the distinct elements in order of first occurrence.
RECURSIVE Dedupe(_)
Dedupe(arr) ==
  IF Len(arr) = 0 THEN <<>>
  ELSE LET init == Dedupe(SubSeq(arr, 1, Len(arr) - 1))
           last == arr[Len(arr)]
       IN IF \E i \in 1..Len(init) : init[i] = last THEN init
          ELSE Append(init, last)

Range(arr) == {arr[i] : i \in 1..Len(arr)}

\* Object.keys of a record whose keys are canonical integer strings:
\* integer keys are listed in ascending numeric order.
ObjectKeys(c) ==
  LET ks == DOMAIN c
      nth(p) == CHOOSE x \in ks :
                  Cardinality({y \in ks : parseInt(y) < parseInt(x)}) = p - 1
  IN Array([p \in 1..Cardinality(ks) |-> nth(p)])

(***************************************************************************)
(* The engine.                                                             *)
(***************************************************************************)
NodeIds(nodes) == {nodes[i].id : i \in 1..Len(nodes)}

\* Faulty variant: each endpoint that is a node gains the other endpoint,
\* whether or not the other endpoint is a node.
RECURSIVE AdjFoldUnguarded(_, _, _)
AdjFoldUnguarded(adj, links, i) ==
  IF i > Len(links) THEN adj
  ELSE LET l == links[i]
           a1 == IF l.source \in DOMAIN adj
                 THEN [adj EXCEPT ![l.source] = Append(@, l.target)] ELSE adj
           a2 == IF l.target \in DOMAIN a1
                 THEN [a1 EXCEPT ![l.target] = Append(@, l.source)] ELSE a1
       IN AdjFoldUnguarded(a2, links, i + 1)

\* Faulty variant: a link is entered in the list of its source only.
RECURSIVE AdjFoldDirected(_, _, _)
AdjFoldDirected(adj, links, i) ==
  IF i > Len(links) THEN adj
  ELSE LET l == links[i] IN
       IF l.source \in DOMAIN adj /\ l.target \in DOMAIN adj
       THEN AdjFoldDirected([adj EXCEPT ![l.source] = Append(@, l.target)], links, i + 1)
       ELSE AdjFoldDirected(adj, links, i + 1)

\* The links.forEach of lines 8-13.
RECURSIVE AdjFold(_, _, _)
AdjFold(adj, links, i) ==
  IF i > Len(links) THEN adj
  ELSE LET l == links[i] IN
       IF l.source \in DOMAIN adj /\ l.target \in DOMAIN adj
       THEN LET a1 == [adj EXCEPT ![l.source] = Append(@, l.target)]
                a2 == [a1 EXCEPT ![l.target] = Append(@, l.source)]
            IN AdjFold(a2, links, i + 1)
       ELSE AdjFold(adj, links, i + 1)

getAdjacencyList(nodes, links) ==
  AdjFold([id \in NodeIds(nodes) |-> <<>>], links, 1)

\* c1[k] !== c2[k] for a key k of c1: c1[k] is a number, and c2[k] is
\* undefined, which differs from every number, when k is no key of c2.
StrictNotEqual(c1, c2, key) == key \notin DOMAIN c2 \/ c1[key] # c2[key]

\* Faulty variant: the comparison of the numbers of keys (line 21) is dropped.
areCountsEqualNoLength(c1, c2) ==
  LET keys1 == ObjectKeys(c1)
  IN \A i \in 1..Len(keys1) : ~StrictNotEqual(c1, c2, keys1[i])

\* Faulty variant: only the numbers of keys are compared.
areCountsEqualKeyCountOnly(c1, c2) == Len(ObjectKeys(c1)) = Len(ObjectKeys(c2))

\* Faulty variant: a histogram without keys is equal to none.
areCountsEqualEmptyFalse(c1, c2) ==
  LET keys1 == ObjectKeys(c1)
      keys2 == ObjectKeys(c2)
  IN IF Len(keys1) = 0 \/ Len(keys1) # Len(keys2) THEN FALSE
     ELSE \A i \in 1..Len(keys1) : ~StrictNotEqual(c1, c2, keys1[i])

\* areCountsEqual, lines 18-26.
areCountsEqual(c1, c2) ==
  LET keys1 == ObjectKeys(c1)
      keys2 == ObjectKeys(c2)
  IN IF Len(keys1) # Len(keys2) THEN FALSE
     ELSE \A i \in 1..Len(keys1) : ~StrictNotEqual(c1, c2, keys1[i])

\* Faulty variant: the distinct initial values are left in order of occurrence.
SortedInitLabelsUnsorted(gA, gB) ==
  Dedupe(Array([i \in 1..Len(gA.nodes) |-> gA.nodes[i].originalLabel])
         \o Array([i \in 1..Len(gB.nodes) |-> gB.nodes[i].originalLabel]))

\* The distinct initial values of both graphs, ascending (lines 45-49).
SortedInitLabels(gA, gB) ==
  SortBy(Dedupe(Array([i \in 1..Len(gA.nodes) |-> gA.nodes[i].originalLabel])
                \o Array([i \in 1..Len(gB.nodes) |-> gB.nodes[i].originalLabel])),
         "number")

\* Faulty variant: the counter is not declared inside the call, so the value
\* that the previous call left in it is kept.
NewCounterKept(old) == old

\* Line 37: every call declares its own counter, which starts at 0.
NewCounter(old) == 0

\* initLabelMap (lines 50-55): the counter is incremented for each distinct
\* initial value in ascending order, and the value gets the new counter value.
InitLabelMap(sorted, counter) ==
  Map([v \in Range(sorted) |->
         toString(counter + (CHOOSE i \in 1..Len(sorted) : sorted[i] = v))])

\* Map built by nodes.forEach(n => m.set(n.id, f(n))): a later entry overwrites.
LastIndex(nodes, id) ==
  CHOOSE i \in 1..Len(nodes) :
    /\ nodes[i].id = id
    /\ \A j \in (i + 1)..Len(nodes) : nodes[j].id # id

\* Faulty variant: every node takes the label of the first node of its graph.
InitialLabelsOfFirstNode(nodes, map) ==
  Map([id \in NodeIds(nodes) |-> map[nodes[1].originalLabel]])

\* currentLabelsA / currentLabelsB after lines 58-59.
InitialLabels(nodes, map) ==
  Map([id \in NodeIds(nodes) |-> map[nodes[LastIndex(nodes, id)].originalLabel]])

\* Faulty variant: the neighbour labels are left out of the signature.
SignatureSelfOnly(myPrevLabel, neighborLabels) ==
  <<Ch.lparen>> \o myPrevLabel \o <<Ch.comma, Ch.lbrack, Ch.rbrack, Ch.rparen>>

\* Faulty variant: the node's own previous label is left out of the signature.
SignatureNoSelf(myPrevLabel, neighborLabels) ==
  <<Ch.lparen, Ch.lbrack>> \o Join(neighborLabels, <<Ch.comma>>) \o <<Ch.rbrack, Ch.rparen>>

\* The template literal of line 96: `(${myPrevLabel},[${neighborLabels.join(',')}])`.
Signature(myPrevLabel, neighborLabels) ==
  <<Ch.lparen>> \o myPrevLabel \o <<Ch.comma, Ch.lbrack>>
  \o Join(neighborLabels, <<Ch.comma>>) \o <<Ch.rbrack, Ch.rparen>>

\* Faulty variant: the neighbour labels are sorted as strings.
SortNeighborLabelsAsStrings(neighborLabels) == SortBy(neighborLabels, "string")

\* Faulty variant: the neighbour labels stay in adjacency order.
SortNeighborLabelsNot(neighborLabels) == neighborLabels

\* neighborLabels.sort((a, b) => parseInt(a) - parseInt(b)) of line 94.
SortNeighborLabels(neighborLabels) == SortBy(neighborLabels, "parseInt")

generateSig(gNodes, adj, prevLabs, graphType, k) ==
  Array([i \in 1..Len(gNodes) |->
     LET node == gNodes[i] IN
     IF k = 0
     THEN [graph |-> graphType, id |-> node.id,
           signature |-> <<Ch.lbrack>> \o toString(node.originalLabel) \o <<Ch.rbrack>>,
           expanded |-> [self |-> toString(node.originalLabel), neighbors |-> <<>>]]
     ELSE LET myPrevLabel == prevLabs[node.id]
              neighborIds == adj[node.id]
              neighborLabels ==
                SortNeighborLabels(
                  Array([j \in 1..Len(neighborIds) |-> prevLabs[neighborIds[j]]]))
          IN [graph |-> graphType, id |-> node.id,
              signature |-> Signature(myPrevLabel, neighborLabels),
              expanded |-> [self |-> myPrevLabel, neighbors |-> neighborLabels]]])

\* Faulty variant: the distinct signatures are left in order of occurrence.
UniqueSignaturesUnsorted(allSigs) ==
  Dedupe(Array([i \in 1..Len(allSigs) |-> allSigs[i].signature]))

\* Faulty variant: the distinct signatures are sorted by the numeric value of
\* the label they start with, and as strings only among equal ones.
UniqueSignaturesNumeric(allSigs) ==
  LET arr == Dedupe(Array([i \in 1..Len(allSigs) |-> allSigs[i].signature]))
      n == Len(arr)
      comma(sig) == CHOOSE c \in 1..Len(sig) :
                      sig[c] = Ch.comma /\ \A b \in 1..(c - 1) : sig[b] # Ch.comma
      self(sig) == parseInt(SubSeq(sig, 2, comma(sig) - 1))
      less(x, y) == self(x) < self(y) \/ (self(x) = self(y) /\ StrLess(x, y))
      rank == Array([i \in 1..n |-> Cardinality({j \in 1..n : less(arr[j], arr[i])}) + 1])
  IN IF \E i \in 1..n : arr[i][1] # Ch.lparen THEN SortBy(arr, "string")
     ELSE Array([p \in 1..n |-> arr[CHOOSE i \in 1..n : rank[i] = p]])

\* The sorted distinct signatures of the pool (line 111).
UniqueSignatures(allSigs) ==
  SortBy(Dedupe(Array([i \in 1..Len(allSigs) |-> allSigs[i].signature])), "string")

\* The per-graph results of allSigs.forEach: label map, histogram, node data.
ItemsOf(allSigs, g) == {i \in 1..Len(allSigs) : allSigs[i].graph = g}

\* Faulty variant: one label map keyed by id alone serves both graphs.
LabelsOfAnyGraph(allSigs, stepMapping, g) ==
  LET ids == {allSigs[i].id : i \in 1..Len(allSigs)}
      last(id) == CHOOSE i \in 1..Len(allSigs) :
                    /\ allSigs[i].id = id
                    /\ \A j \in 1..Len(allSigs) : j > i => allSigs[j].id # id
  IN Map([id \in ids |-> stepMapping[allSigs[last(id)].signature]])

\* nextLabsA / nextLabsB (lines 154-155, 164, 179).
LabelsOf(allSigs, stepMapping, g) ==
  LET ids == {allSigs[i].id : i \in ItemsOf(allSigs, g)}
      last(id) == CHOOSE i \in ItemsOf(allSigs, g) :
                    /\ allSigs[i].id = id
                    /\ \A j \in ItemsOf(allSigs, g) : j > i => allSigs[j].id # id
  IN Map([id \in ids |-> stepMapping[allSigs[last(id)].signature]])

\* Faulty variant: both graphs are counted into one histogram.
CountsOfAnyGraph(allSigs, stepMapping, g) ==
  LET labs == {stepMapping[allSigs[i].signature] : i \in 1..Len(allSigs)}
  IN Map([l \in labs |->
        Cardinality({i \in 1..Len(allSigs) : stepMapping[allSigs[i].signature] = l})])

\* Faulty variant: a count is set to 1 instead of being incremented.
CountsOfOverwrite(allSigs, stepMapping, g) ==
  LET labs == {stepMapping[allSigs[i].signature] : i \in ItemsOf(allSigs, g)}
  IN Map([l \in labs |-> 1])

\* countsA / countsB (lines 158-170).
CountsOf(allSigs, stepMapping, g) ==
  LET labs == {stepMapping[allSigs[i].signature] : i \in ItemsOf(allSigs, g)}
  IN Map([l \in labs |->
        Cardinality({i \in ItemsOf(allSigs, g) : stepMapping[allSigs[i].signature] = l})])

\* Faulty variant: one node-data map keyed by id alone serves both graphs.
NodeDataOfAnyGraph(allSigs, stepMapping, g) ==
  LET ids == {allSigs[i].id : i \in 1..Len(allSigs)}
      last(id) == CHOOSE i \in 1..Len(allSigs) :
                    /\ allSigs[i].id = id
                    /\ \A j \in 1..Len(allSigs) : j > i => allSigs[j].id # id
  IN Map([id \in ids |->
        LET item == allSigs[last(id)] IN
        [id |-> item.id, originalLabel |-> 0,
         label |-> stepMapping[item.signature],
         signature |-> item.signature,
         expandedSignature |-> item.expanded]])

\* nodeDataA / nodeDataB (lines 156-184).
NodeDataOf(allSigs, stepMapping, g) ==
  LET ids == {allSigs[i].id : i \in ItemsOf(allSigs, g)}
      last(id) == CHOOSE i \in ItemsOf(allSigs, g) :
                    /\ allSigs[i].id = id
                    /\ \A j \in ItemsOf(allSigs, g) : j > i => allSigs[j].id # id
  IN Map([id \in ids |->
        LET item == allSigs[last(id)] IN
        [id |-> item.id, originalLabel |-> 0,
         label |-> stepMapping[item.signature],
         signature |-> item.signature,
         expandedSignature |-> item.expanded]])

\* Faulty variant: the keys stay in the order in which they were collected.
UniqueLabelsUnsorted(countsA, countsB) ==
  Dedupe(ObjectKeys(countsA) \o ObjectKeys(countsB))

\* Faulty variant: the keys are sorted as strings.
UniqueLabelsAsStrings(countsA, countsB) ==
  SortBy(Dedupe(ObjectKeys(countsA) \o ObjectKeys(countsB)), "string")

\* uniqueLabels (lines 187-188).
UniqueLabels(countsA, countsB) ==
  SortBy(Dedupe(ObjectKeys(countsA) \o ObjectKeys(countsB)), "parseInt")

\* Faulty variant: the id is taken from the counter before it is incremented.
NewIdBeforeIncrement(counter, i) == toString(counter + i - 1)

\* Faulty variant: the counter restarts at every step.
NewIdPerStep(counter, i) == toString(i)

\* Lines 129-130: the i-th signature of a step k >= 1 takes the next value of
\* the counter, which stood at "counter" when the step began.
NewId(counter, i) == toString(counter + i)

\* processStep, with the variables it closes over passed explicitly; the
\* counter it advances is returned in the result.
processStep(k, gA, gB, aA, aB, prevLabelsA, prevLabelsB, counter, sortedInit, initMap) ==
  LET allSigs == generateSig(gA.nodes, aA, prevLabelsA, "A", k)
                 \o generateSig(gB.nodes, aB, prevLabelsB, "B", k)
      uniqueSignatures == UniqueSignatures(allSigs)
      stepMapping ==
        IF k = 0
        THEN Map([s \in {<<Ch.lbrack>> \o toString(v) \o <<Ch.rbrack>> : v \in Range(sortedInit)} |->
                    initMap[CHOOSE v \in Range(sortedInit) :
                              s = <<Ch.lbrack>> \o toString(v) \o <<Ch.rbrack>>]])
        ELSE Map([s \in Range(uniqueSignatures) |->
                    NewId(counter, CHOOSE i \in 1..Len(uniqueSignatures) :
                                     uniqueSignatures[i] = s)])
      mappingList ==
        IF k = 0
        THEN Array([i \in 1..Len(sortedInit) |->
                      [signature |-> InitialPrefix \o toString(sortedInit[i]),
                       label |-> initMap[sortedInit[i]]]])
        ELSE Array([i \in 1..Len(uniqueSignatures) |->
                      [signature |-> uniqueSignatures[i],
                       label |-> NewId(counter, i)]])
      countsA == CountsOf(allSigs, stepMapping, "A")
      countsB == CountsOf(allSigs, stepMapping, "B")
  IN [step |-> [k |-> k,
                nodeDataA |-> NodeDataOf(allSigs, stepMapping, "A"),
                nodeDataB |-> NodeDataOf(allSigs, stepMapping, "B"),
                labelCountsA |-> countsA,
                labelCountsB |-> countsB,
                uniqueLabels |-> UniqueLabels(countsA, countsB),
                mappings |-> mappingList,
                isIsomorphicCandidate |-> areCountsEqual(countsA, countsB)],
      nextLabelsA |-> LabelsOf(allSigs, stepMapping, "A"),
      nextLabelsB |-> LabelsOf(allSigs, stepMapping, "B"),
      counter |-> IF k = 0 THEN counter ELSE counter + Len(uniqueSignatures)]

\* Faulty variant: the loop stops one iteration early.
LoopCondStrict(kk, mK) == kk < mK

\* Line 211: the condition of the loop.
LoopCond(kk, mK) == kk <= mK

\* The loop of lines 211-221, from iteration kk on.
RECURSIVE RunLoop(_, _, _, _, _, _)
RunLoop(ctx, kk, stepsSoFar, labelsA, labelsB, counter) ==
  IF ~LoopCond(kk, ctx.maxK) THEN [steps |-> stepsSoFar, maxK |-> ctx.maxK]
  ELSE LET res == processStep(kk, ctx.gA, ctx.gB, ctx.aA, ctx.aB, labelsA, labelsB,
                              counter, ctx.sorted, ctx.initMap)
       IN RunLoop(ctx, kk + 1, Append(stepsSoFar, res.step),
                  res.nextLabelsA, res.nextLabelsB, res.counter)

\* runWLAlgorithm as a function of its arguments.
runWLAlgorithm(gA, gB, mK) ==
  LET sorted == SortedInitLabels(gA, gB)
      counter0 == NewCounter(0)
      ctx == [gA |-> gA, gB |-> gB, maxK |-> mK,
              aA |-> getAdjacencyList(gA.nodes, gA.links),
              aB |-> getAdjacencyList(gB.nodes, gB.links),
              sorted |-> sorted, initMap |-> InitLabelMap(sorted, counter0)]
      labelsA == InitialLabels(gA.nodes, ctx.initMap)
      labelsB == InitialLabels(gB.nodes, ctx.initMap)
      result0 == processStep(0, gA, gB, ctx.aA, ctx.aB, labelsA, labelsB,
                             counter0 + Len(sorted), sorted, ctx.initMap)
  IN RunLoop(ctx, 1, <<result0.step>>, labelsA, labelsB, result0.counter)

(***************************************************************************)
(* The scenario generator createPermutedCopy.  Its two random draws are    *)
(* arguments: "indices" is the outcome of the Fisher-Yates shuffle (the    *)
(* node at position i is renamed to prefix + indices[i]), "order" the      *)
(* outcome of sorting the new nodes with a random comparator.              *)
(***************************************************************************)
Perms(n) == {f \in [1..n -> 1..n] : \A i \in 1..n : \A j \in 1..n : f[i] = f[j] => i = j}

\* The outcomes of newNodes.sort(() => Math.random() - 0.5) that are
\* explored: every order of an array of up to MaxFullShuffle nodes, every
\* rotation of a longer one.
ShuffleOrders(n) ==
  IF n <= MaxFullShuffle THEN Perms(n)
  ELSE {[i \in 1..n |-> ((i - 1 + r) % n) + 1] : r \in 0..(n - 1)}

OldIdToNewId(graph, prefix, indices) ==
  Map([id \in NodeIds(graph.nodes) |->
         <<prefix, indices[LastIndex(graph.nodes, id)] - 1>>])

\* Faulty variant: a renamed node takes the initial label of the node at its
\* new index instead of keeping its own.
createPermutedCopyLabelsByIndex(graph, prefix, indices, order) ==
  LET oldIdToNewId == OldIdToNewId(graph, prefix, indices)
      newNodes == Array([i \in 1..Len(graph.nodes) |->
                    [id |-> oldIdToNewId[graph.nodes[i].id],
                     originalLabel |-> graph.nodes[indices[i]].originalLabel]])
      newLinks == Array([j \in 1..Len(graph.links) |->
                    [source |-> oldIdToNewId[graph.links[j].source],
                     target |-> oldIdToNewId[graph.links[j].target]]])
  IN [nodes |-> Array([i \in 1..Len(newNodes) |-> newNodes[order[i]]]),
      links |-> newLinks]

\* createPermutedCopy, lines 83-116.
createPermutedCopy(graph, prefix, indices, order) ==
  LET oldIdToNewId == OldIdToNewId(graph, prefix, indices)
      newNodes == Array([i \in 1..Len(graph.nodes) |->
                    [id |-> oldIdToNewId[graph.nodes[i].id],
                     originalLabel |-> graph.nodes[i].originalLabel]])
      newLinks == Array([j \in 1..Len(graph.links) |->
                    [source |-> oldIdToNewId[graph.links[j].source],
                     target |-> oldIdToNewId[graph.links[j].target]]])
  IN [nodes |-> Array([i \in 1..Len(newNodes) |-> newNodes[order[i]]]),
      links |-> newLinks]

(***************************************************************************)
(* The scenarios of getScenario.  An id `${prefix}${i}` is the pair        *)
(* <<prefix, i>>.                                                          *)
(***************************************************************************)
MkNode(prefix, i, label) == [id |-> <<prefix, i>>, originalLabel |-> label]

MkLink(p, i, q, j) == [source |-> <<p, i>>, target |-> <<q, j>>]

\* Faulty variant: the link that closes the cycle is missing.
createCycleOpen(n, prefix, label) ==
  [nodes |-> Array([i \in 1..n |-> MkNode(prefix, i - 1, label)]),
   links |-> Array([i \in 1..(n - 1) |-> MkLink(prefix, i - 1, prefix, i % n)])]

\* createCycle, lines 5-12: link i joins node i to node (i + 1) % n.
createCycle(n, prefix, label) ==
  [nodes |-> Array([i \in 1..n |-> MkNode(prefix, i - 1, label)]),
   links |-> Array([i \in 1..n |-> MkLink(prefix, i - 1, prefix, i % n)])]

\* Graph A of ScenarioType.ISOMORPHIC_PAIR, lines 125-138: the house.
HouseGraph ==
  [nodes |-> <<MkNode("A", 0, 1), MkNode("A", 1, 1), MkNode("A", 2, 1),
               MkNode("A", 3, 1), MkNode("A", 4, 2)>>,
   links |-> <<MkLink("A", 0, "A", 1), MkLink("A", 1, "A", 2), MkLink("A", 2, "A", 3),
               MkLink("A", 3, "A", 0), MkLink("A", 4, "A", 0), MkLink("A", 4, "A", 1)>>]

\* The scenarios whose two graphs are written out in getScenario.
FixedScenarioTypes ==
  {"NON_ISOMORPHIC_SIMPLE", "NON_ISOMORPHIC_REGULAR", "NON_ISOMORPHIC_DEGREE", "CYCLES"}

getScenario(type) ==
  CASE type = "NON_ISOMORPHIC_SIMPLE" ->
         [graphA |->
            [nodes |-> <<MkNode("A", 0, 2), MkNode("A", 1, 1), MkNode("A", 2, 1),
                         MkNode("A", 3, 1), MkNode("A", 4, 2)>>,
             links |-> <<MkLink("A", 0, "A", 1), MkLink("A", 1, "A", 2),
                         MkLink("A", 2, "A", 3), MkLink("A", 3, "A", 4)>>],
          graphB |->
            [nodes |-> <<MkNode("B", 0, 3), MkNode("B", 1, 2), MkNode("B", 2, 2),
                         MkNode("B", 3, 2), MkNode("B", 4, 2)>>,
             links |-> <<MkLink("B", 0, "B", 1), MkLink("B", 0, "B", 2),
                         MkLink("B", 0, "B", 3), MkLink("B", 0, "B", 4)>>]]
    [] type = "NON_ISOMORPHIC_REGULAR" ->
         [graphA |->
            [nodes |-> <<MkNode("A", 0, 2), MkNode("A", 1, 1), MkNode("A", 2, 1),
                         MkNode("A", 3, 2), MkNode("A", 4, 1), MkNode("A", 5, 1)>>,
             links |-> <<MkLink("A", 0, "A", 1), MkLink("A", 1, "A", 2),
                         MkLink("A", 2, "A", 0), MkLink("A", 3, "A", 4),
                         MkLink("A", 4, "A", 5), MkLink("A", 5, "A", 3),
                         MkLink("A", 0, "A", 3)>>],
          graphB |->
            [nodes |-> <<MkNode("B", 0, 2), MkNode("B", 1, 1), MkNode("B", 2, 1),
                         MkNode("B", 3, 2), MkNode("B", 4, 1), MkNode("B", 5, 1)>>,
             links |-> <<MkLink("B", 0, "B", 1), MkLink("B", 1, "B", 2),
                         MkLink("B", 2, "B", 3), MkLink("B", 3, "B", 4),
                         MkLink("B", 4, "B", 5), MkLink("B", 5, "B", 0),
                         MkLink("B", 0, "B", 3)>>]]
    [] type = "NON_ISOMORPHIC_DEGREE" ->
         [graphA |->
            [nodes |-> Array([i \in 1..6 |-> MkNode("A", i - 1, 1)]),
             links |-> Array([i \in 1..5 |-> MkLink("A", i - 1, "A", i)])],
          graphB |->
            [nodes |-> Array([i \in 1..6 |-> MkNode("B", i - 1, 1)]),
             links |-> <<MkLink("B", 0, "B", 1), MkLink("B", 1, "B", 2),
                         MkLink("B", 3, "B", 4), MkLink("B", 4, "B", 5)>>]]
    [] type = "CYCLES" ->
         LET gA == createCycle(6, "A_C6_", 1)
             gB1 == createCycle(3, "B_C3a_", 1)
             gB2 == createCycle(3, "B_C3b_", 1)
         IN [graphA |-> gA,
             graphB |-> [nodes |-> gB1.nodes \o gB2.nodes,
                         links |-> gB1.links \o gB2.links]]

(***************************************************************************)
(* Inputs.                                                                 *)
(***************************************************************************)
\* Graph A uses the ids A0, A1, ...; graph B uses A0 (an id it shares with
\* graph A), B1, B2, ...
IdOf(g, i) == IF g = "A" \/ i = 0 THEN <<"A", i>> ELSE <<"B", i>>

InitLabelValues == 1..MaxInitLabel

\* The undirected simple graphs on n nodes, nodes and links in index order.
PairsOf(n) == {p \in (0..(n - 1)) \X (0..(n - 1)) : p[1] < p[2]}

PairSeq(ps) ==
  LET less(p, q) == p[1] < q[1] \/ (p[1] = q[1] /\ p[2] < q[2])
      nth(k) == CHOOSE p \in ps : Cardinality({q \in ps : less(q, p)}) = k - 1
  IN [k \in 1..Cardinality(ps) |-> nth(k)]

SimpleGraphs(g) ==
  UNION {
    {[nodes |-> [i \in 1..n |-> [id |-> IdOf(g, i - 1), originalLabel |-> lab[i]]],
      links |-> [j \in 1..Cardinality(ps) |->
                   [source |-> IdOf(g, PairSeq(ps)[j][1]),
                    target |-> IdOf(g, PairSeq(ps)[j][2])]]]
       : lab \in [1..n -> InitLabelValues], ps \in SUBSET PairsOf(n)}
    : n \in 0..MaxNodes}

\* The same graph with its nodes array and its links array in another order.
Reorder(g, p, q) ==
  [nodes |-> Array([i \in 1..Len(g.nodes) |-> g.nodes[p[i]]]),
   links |-> Array([j \in 1..Len(g.links) |-> g.links[q[j]]])]

Reorderings(g) ==
  {Reorder(g, p, q) : p \in Perms(Len(g.nodes)), q \in Perms(Len(g.links))}

(***************************************************************************)
(* runWLAlgorithm as a state machine.                                      *)
(***************************************************************************)
VARIABLES graphA, graphB, maxK, oldIdToNewId, pc, adjA, adjB, steps,
          globalLabelCounter, currentLabelsA, currentLabelsB, sortedInitLabels,
          initLabelMap, k, history,
          scenarioType, viewK, isPlaying, selectedNodeId, rendered, playInterval

\* The state of the App component that calls runWLAlgorithm: its four useState
\* cells (viewK is the cell the source calls k), the values the handlers of the
\* last render closed over, and whether playInterval.current is a live timer.
ui == <<scenarioType, viewK, isPlaying, selectedNodeId, rendered, playInterval>>

vars == <<graphA, graphB, maxK, oldIdToNewId, pc, adjA, adjB, steps,
          globalLabelCounter, currentLabelsA, currentLabelsB, sortedInitLabels,
          initLabelMap, k, history, ui>>

\* What a call leaves alone: its arguments, and what its caller holds (the
\* renaming of the scenario, the results of the calls made before, the state
\* of the component).
inputs == <<graphA, graphB, maxK, oldIdToNewId, history, ui>>

\* selectedNodeId is a node id or null.
Null == << >>

\* The component as it mounts: the initial values of its state cells, its
\* first render, no timer.
Mounted ==
  /\ scenarioType = "ISOMORPHIC_PAIR"
  /\ viewK = 0
  /\ isPlaying = FALSE
  /\ selectedNodeId = Null
  /\ rendered = [k |-> 0, isPlaying |-> FALSE]
  /\ playInterval = FALSE

Blank ==
  /\ adjA = << >>
  /\ adjB = << >>
  /\ steps = << >>
  /\ globalLabelCounter = 0
  /\ currentLabelsA = << >>
  /\ currentLabelsB = << >>
  /\ sortedInitLabels = << >>
  /\ initLabelMap = << >>
  /\ k = 0
  /\ history = << >>

\* The caller hands any two graphs and a horizon to runWLAlgorithm.
Init ==
  /\ graphA \in SimpleGraphs("A")
  /\ graphB \in SimpleGraphs("B")
  /\ maxK \in 0..MaxK
  /\ oldIdToNewId = << >>
  /\ pc = "start"
  /\ Blank
  /\ Mounted

\* Lines 29-59: adjacency lists, and the initial labels of step 0.
Initialize ==
  /\ pc = "start"
  /\ adjA' = getAdjacencyList(graphA.nodes, graphA.links)
  /\ adjB' = getAdjacencyList(graphB.nodes, graphB.links)
  /\ sortedInitLabels' = SortedInitLabels(graphA, graphB)
  /\ initLabelMap' = InitLabelMap(sortedInitLabels', globalLabelCounter)
  /\ globalLabelCounter' = globalLabelCounter + Len(sortedInitLabels')
  /\ currentLabelsA' = InitialLabels(graphA.nodes, initLabelMap')
  /\ currentLabelsB' = InitialLabels(graphB.nodes, initLabelMap')
  /\ pc' = "step0"
  /\ UNCHANGED <<inputs, steps, k>>

\* Lines 207-208: step 0.
RunStep0 ==
  /\ pc = "step0"
  /\ LET result0 == processStep(0, graphA, graphB, adjA, adjB,
                                currentLabelsA, currentLabelsB,
                                globalLabelCounter, sortedInitLabels, initLabelMap)
     IN /\ steps' = Append(steps, result0.step)
        /\ globalLabelCounter' = result0.counter
  /\ k' = 1
  /\ pc' = "loop"
  /\ UNCHANGED <<inputs, adjA, adjB, currentLabelsA, currentLabelsB,
                 sortedInitLabels, initLabelMap>>

\* Lines 211-221: one iteration of the loop.
RunStepK ==
  /\ pc = "loop"
  /\ LoopCond(k, maxK)
  /\ LET res == processStep(k, graphA, graphB, adjA, adjB,
                            currentLabelsA, currentLabelsB,
                            globalLabelCounter, sortedInitLabels, initLabelMap)
     IN /\ steps' = Append(steps, res.step)
        /\ currentLabelsA' = res.nextLabelsA
        /\ currentLabelsB' = res.nextLabelsB
        /\ globalLabelCounter' = res.counter
  /\ k' = k + 1
  /\ UNCHANGED <<inputs, pc, adjA, adjB, sortedInitLabels, initLabelMap>>

\* Line 223: the loop is over, the result is returned.
Return ==
  /\ pc = "loop"
  /\ ~LoopCond(k, maxK)
  /\ pc' = "done"
  /\ UNCHANGED <<inputs, adjA, adjB, steps, globalLabelCounter, currentLabelsA,
                 currentLabelsB, sortedInitLabels, initLabelMap, k>>

Next == Initialize \/ RunStep0 \/ RunStepK \/ Return

Spec == Init /\ [][Next]_vars

\* The same, on graphs whose nodes and links arrays come in every order.
InitOrder ==
  /\ \E gA \in SimpleGraphs("A") : \E gB \in SimpleGraphs("B") :
       /\ Len(gA.nodes) + Len(gB.nodes) <= MaxOrderTotal
       /\ graphA \in Reorderings(gA)
       /\ graphB \in Reorderings(gB)
  /\ maxK = MaxK
  /\ oldIdToNewId = << >>
  /\ pc = "start"
  /\ Blank
  /\ Mounted

SpecOrder == InitOrder /\ [][Next]_vars

\* The isomorphic scenarios of getScenario: graph B is a permuted copy of
\* graph A, built by createPermutedCopy before the engine runs.
InitPerm ==
  /\ graphA \in SimpleGraphs("A")
  /\ graphB = [nodes |-> << >>, links |-> << >>]
  /\ maxK \in 0..MaxK
  /\ oldIdToNewId = << >>
  /\ pc = "scenario"
  /\ Blank
  /\ Mounted

Permute ==
  /\ pc = "scenario"
  /\ \E indices \in Perms(Len(graphA.nodes)) : \E order \in ShuffleOrders(Len(graphA.nodes)) :
       /\ graphB' = createPermutedCopy(graphA, "B", indices, order)
       /\ oldIdToNewId' = OldIdToNewId(graphA, "B", indices)
  /\ pc' = "start"
  /\ UNCHANGED <<graphA, maxK, adjA, adjB, steps, globalLabelCounter, currentLabelsA,
                 currentLabelsB, sortedInitLabels, initLabelMap, k, history, ui>>

NextPerm == Permute \/ Initialize \/ RunStep0 \/ RunStepK \/ Return

SpecPerm == InitPerm /\ [][NextPerm]_vars

\* The application runs the engine on the two graphs of a scenario.
InitScenario ==
  /\ \E type \in FixedScenarioTypes :
       /\ graphA = getScenario(type).graphA
       /\ graphB = getScenario(type).graphB
  /\ maxK \in 0..MAX_K
  /\ oldIdToNewId = << >>
  /\ pc = "start"
  /\ Blank
  /\ Mounted

SpecScenario == InitScenario /\ [][Next]_vars

\* ScenarioType.ISOMORPHIC_PAIR: graph B is a permuted copy of the house.
InitHouse ==
  /\ graphA = HouseGraph
  /\ graphB = [nodes |-> << >>, links |-> << >>]
  /\ maxK = MAX_K
  /\ oldIdToNewId = << >>
  /\ pc = "scenario"
  /\ Blank
  /\ Mounted

SpecHouse == InitHouse /\ [][NextPerm]_vars

(***************************************************************************)
(* A caller that calls the engine again and again, and keeps the arguments *)
(* and the result of every call that has returned.                         *)
(***************************************************************************)
CallGraphs(g) == {h \in SimpleGraphs(g) : Len(h.nodes) <= MaxCallNodes}

InitCalls ==
  /\ graphA \in CallGraphs("A")
  /\ graphB \in CallGraphs("B")
  /\ maxK \in 0..MaxK
  /\ oldIdToNewId = << >>
  /\ pc = "start"
  /\ Blank
  /\ Mounted

\* The call has returned (line 223); the caller keeps its result and calls
\* runWLAlgorithm again: lines 29-41 of the new call declare its locals.
Call ==
  /\ pc = "done"
  /\ Len(history) + 1 < MaxCalls
  /\ history' = Append(history, [graphA |-> graphA, graphB |-> graphB,
                                 maxK |-> maxK, steps |-> steps])
  /\ graphA' \in CallGraphs("A")
  /\ graphB' \in CallGraphs("B")
  /\ maxK' \in 0..MaxK
  /\ adjA' = << >>
  /\ adjB' = << >>
  /\ steps' = << >>
  /\ globalLabelCounter' = NewCounter(globalLabelCounter)
  /\ currentLabelsA' = << >>
  /\ currentLabelsB' = << >>
  /\ sortedInitLabels' = << >>
  /\ initLabelMap' = << >>
  /\ k' = 0
  /\ pc' = "start"
  /\ UNCHANGED <<oldIdToNewId, ui>>

NextCalls == Call \/ Initialize \/ RunStep0 \/ RunStepK \/ Return

SpecCalls == InitCalls /\ [][NextCalls]_vars

(***************************************************************************)
(* Arguments the engine does not validate.  A Link is a pair of strings,   *)
(* so a link may name an id that is no node of its graph, repeat another   *)
(* link or join a node to itself; maxK is a number, so it may be negative. *)
(***************************************************************************)
\* The ids of a graph with n nodes, and one more id that is no node of it.
LooseIds(g, n) == {IdOf(g, i) : i \in 0..n}

WithLink(h, l) == [nodes |-> h.nodes, links |-> Append(h.links, l)]

SmallGraphs(g) == {h \in SimpleGraphs(g) : Len(h.nodes) <= MaxLooseNodes}

\* A simple graph, possibly with one more link between any two loose ids.
LooseGraphs(g) ==
  SmallGraphs(g) \cup
  UNION {{WithLink(h, [source |-> s, target |-> t]) :
            s \in LooseIds(g, Len(h.nodes)), t \in LooseIds(g, Len(h.nodes))}
         : h \in SmallGraphs(g)}

HasDanglingLink(g) ==
  \E j \in 1..Len(g.links) :
    g.links[j].source \notin NodeIds(g.nodes) \/ g.links[j].target \notin NodeIds(g.nodes)

InitAnyInput ==
  /\ \/ graphA \in LooseGraphs("A") /\ graphB \in SmallGraphs("B")
     \/ graphA \in SmallGraphs("A") /\ graphB \in LooseGraphs("B")
  /\ maxK \in (0 - MaxK)..MaxK
  /\ oldIdToNewId = << >>
  /\ pc = "start"
  /\ Blank
  /\ Mounted

SpecAnyInput == InitAnyInput /\ [][Next]_vars

(***************************************************************************)
(* Vocabulary of the properties.                                           *)
(***************************************************************************)
\* The nodes of both graphs, each named by its graph and its id.
PooledNodes ==
  {<<"A", id>> : id \in NodeIds(graphA.nodes)} \cup {<<"B", id>> : id \in NodeIds(graphB.nodes)}

\* The label of pooled node u in step record s.
Lab(s, u) == IF u[1] = "A" THEN s.nodeDataA[u[2]].label ELSE s.nodeDataB[u[2]].label

GraphOf(u) == IF u[1] = "A" THEN graphA ELSE graphB

RawLabel(u) ==
  LET g == GraphOf(u) IN g.nodes[CHOOSE i \in 1..Len(g.nodes) : g.nodes[i].id = u[2]].originalLabel

\* The LabelIds minted so far: the decimal strings of 1..globalLabelCounter.
LabelIds == {toString(n) : n \in 1..globalLabelCounter}

RECURSIVE SumOver(_, _)
SumOver(c, ks) ==
  IF ks = {} THEN 0
  ELSE LET x == CHOOSE y \in ks : TRUE IN c[x] + SumOver(c, ks \ {x})

SumCounts(c) == SumOver(c, DOMAIN c)

\* Every LabelId a step record mentions.
StepLabels(s) ==
  {s.mappings[i].label : i \in 1..Len(s.mappings)}
  \cup {s.nodeDataA[id].label : id \in DOMAIN s.nodeDataA}
  \cup {s.nodeDataB[id].label : id \in DOMAIN s.nodeDataB}
  \cup DOMAIN s.labelCountsA \cup DOMAIN s.labelCountsB \cup Range(s.uniqueLabels)

\* How many neighbours of u carry label l in step record s, counted on the
\* links of u's graph whose two endpoints are nodes of that graph.
NeighbourCount(s, u, l) ==
  LET g == GraphOf(u)
      ids == NodeIds(g.nodes)
      ok == {j \in 1..Len(g.links) : g.links[j].source \in ids /\ g.links[j].target \in ids}
  IN Cardinality({j \in ok : g.links[j].source = u[2] /\ Lab(s, <<u[1], g.links[j].target>>) = l})
     + Cardinality({j \in ok : g.links[j].target = u[2] /\ Lab(s, <<u[1], g.links[j].source>>) = l})

SameNeighbourLabels(s, u, v) ==
  \A l \in StepLabels(s) : NeighbourCount(s, u, l) = NeighbourCount(s, v, l)

(***************************************************************************)
(* Properties of runWLAlgorithm.                                           *)
(***************************************************************************)
\* C1: for maxK >= 0 the returned sequence has exactly maxK+1 steps and the
\* step at index i has k = i.
C1_StepCount ==
  (pc = "done" /\ maxK >= 0) =>
    /\ Len(steps) = maxK + 1
    /\ \A i \in 0..maxK : steps[i + 1].k = i

C1_Witness == pc = "done" /\ maxK = MaxK /\ Len(steps) = MaxK + 1

\* C2: conservation: in every step the counts of labelCountsA sum to the
\* number of nodes of graph A, and those of labelCountsB to that of graph B.
C2_Conservation ==
  \A i \in 1..Len(steps) :
    /\ SumCounts(steps[i].labelCountsA) = Len(graphA.nodes)
    /\ SumCounts(steps[i].labelCountsB) = Len(graphB.nodes)

C2_Witness ==
  /\ Len(steps) >= 2
  /\ \E l \in DOMAIN steps[2].labelCountsA : steps[2].labelCountsA[l] >= 2
  /\ Cardinality(DOMAIN steps[2].labelCountsB) >= 2

\* C3: in every step each node of a graph has exactly one label in that
\* graph's per-node record, and the count of a label in the graph's histogram
\* is the number of nodes of the graph that carry it.
C3_OneLabelPerNode ==
  \A i \in 1..Len(steps) :
    LET s == steps[i] IN
    /\ DOMAIN s.nodeDataA = NodeIds(graphA.nodes)
    /\ DOMAIN s.nodeDataB = NodeIds(graphB.nodes)
    /\ \A id \in DOMAIN s.nodeDataA : s.nodeDataA[id].label \in LabelIds
    /\ \A id \in DOMAIN s.nodeDataB : s.nodeDataB[id].label \in LabelIds
    /\ DOMAIN s.labelCountsA = {s.nodeDataA[id].label : id \in DOMAIN s.nodeDataA}
    /\ DOMAIN s.labelCountsB = {s.nodeDataB[id].label : id \in DOMAIN s.nodeDataB}
    /\ \A l \in DOMAIN s.labelCountsA :
         s.labelCountsA[l] = Cardinality({id \in DOMAIN s.nodeDataA : s.nodeDataA[id].label = l})
    /\ \A l \in DOMAIN s.labelCountsB :
         s.labelCountsB[l] = Cardinality({id \in DOMAIN s.nodeDataB : s.nodeDataB[id].label = l})

\* Both graphs hold the id A0, with different labels, after a refinement step.
C3_Witness ==
  /\ Len(steps) >= 2
  /\ IdOf("A", 0) \in NodeIds(graphA.nodes) /\ IdOf("A", 0) \in NodeIds(graphB.nodes)
  /\ steps[2].nodeDataA[IdOf("A", 0)].label # steps[2].nodeDataB[IdOf("A", 0)].label
  /\ Len(graphA.nodes) = MaxNodes

\* C4: never-merge: two nodes (of the same or of different graphs) with
\* different labels at a step have different labels at every later step.
C4_NeverMerge ==
  \A i \in 1..Len(steps) : \A j \in (i + 1)..Len(steps) :
    \A u \in PooledNodes : \A v \in PooledNodes :
      Lab(steps[i], u) # Lab(steps[i], v) => Lab(steps[j], u) # Lab(steps[j], v)

\* Two nodes with different labels at step 0 and the same neighbour labels.
C4_Witness ==
  /\ Len(steps) >= 3
  /\ \E u \in PooledNodes : \E v \in PooledNodes :
       /\ u[1] # v[1]
       /\ Lab(steps[1], u) # Lab(steps[1], v)
       /\ SameNeighbourLabels(steps[1], u, v)
       /\ NeighbourCount(steps[1], u, Lab(steps[1], u)) > 0
       /\ Lab(steps[3], u) # Lab(steps[3], v)

\* Within a step no LabelId stands for two signatures, and no LabelId of a
\* step occurs in another step.
C5_UniqueInRun ==
  \A i \in 1..Len(steps) :
    LET s == steps[i] IN
    /\ \A a \in 1..Len(s.mappings) : \A b \in 1..Len(s.mappings) :
         s.mappings[a].label = s.mappings[b].label
           => s.mappings[a].signature = s.mappings[b].signature
    /\ \A u \in PooledNodes : \A v \in PooledNodes :
         Lab(s, u) = Lab(s, v) =>
           (IF u[1] = "A" THEN s.nodeDataA[u[2]] ELSE s.nodeDataB[u[2]]).signature
           = (IF v[1] = "A" THEN s.nodeDataA[v[2]] ELSE s.nodeDataB[v[2]]).signature
    /\ \A j \in 1..Len(steps) : j # i => StepLabels(s) \cap StepLabels(steps[j]) = {}

\* C5, with the counter: the above in every state, and no step of the
\* program lowers globalLabelCounter.
C5_GlobalUniqueness ==
  /\ []C5_UniqueInRun
  /\ [][globalLabelCounter' >= globalLabelCounter]_vars

C5_Witness ==
  /\ Len(steps) = MaxK + 1
  /\ \A i \in 1..Len(steps) : Len(steps[i].mappings) >= 2
  /\ globalLabelCounter >= 2 * (MaxK + 1)

\* The graph with its nodes in the order of their id and its links in the
\* order of their endpoints.
IdLess(a, b) == a[2] < b[2]

LinkLess(l, m) ==
  IdLess(l.source, m.source) \/ (l.source = m.source /\ IdLess(l.target, m.target))

InIdOrder(g) ==
  [nodes |-> Array([p \in 1..Len(g.nodes) |->
               g.nodes[CHOOSE i \in 1..Len(g.nodes) :
                 Cardinality({j \in 1..Len(g.nodes) : IdLess(g.nodes[j].id, g.nodes[i].id)}) = p - 1]]),
   links |-> Array([p \in 1..Len(g.links) |->
               g.links[CHOOSE i \in 1..Len(g.links) :
                 Cardinality({j \in 1..Len(g.links) : LinkLess(g.links[j], g.links[i])}) = p - 1]])]

\* C6: order independence: the steps computed on graphs whose nodes and
\* links arrays are in any order are those computed on the same graphs in
\* id order: the same label for every node id, the same histograms, the same
\* uniqueLabels, the same mappings and the same verdict.
C6_OrderIndependence ==
  Len(steps) >= 1 =>
    LET ref == runWLAlgorithm(InIdOrder(graphA), InIdOrder(graphB), Len(steps) - 1).steps
    IN \A i \in 1..Len(steps) :
         /\ \A u \in PooledNodes : Lab(steps[i], u) = Lab(ref[i], u)
         /\ steps[i].labelCountsA = ref[i].labelCountsA
         /\ steps[i].labelCountsB = ref[i].labelCountsB
         /\ steps[i].uniqueLabels = ref[i].uniqueLabels
         /\ steps[i].mappings = ref[i].mappings
         /\ steps[i].isIsomorphicCandidate = ref[i].isIsomorphicCandidate

\* Both arrays of graph A are out of id order, and the nodes split into
\* several classes.
C6_Witness ==
  /\ Len(steps) = MaxK + 1
  /\ graphA.nodes # InIdOrder(graphA).nodes
  /\ graphA.links # InIdOrder(graphA).links
  /\ Len(steps[2].mappings) >= 3

\* C7: permutation invariance: when graph B is a permuted copy of graph A,
\* isIsomorphicCandidate is true at every step and every node of A has the
\* label of its renamed image in B.
C7_PermutationInvariance ==
  pc # "scenario" =>
    \A i \in 1..Len(steps) :
      /\ steps[i].isIsomorphicCandidate
      /\ \A id \in NodeIds(graphA.nodes) :
           steps[i].nodeDataA[id].label = steps[i].nodeDataB[oldIdToNewId[id]].label

\* The copy renames a node with neighbours to another index and lists the
\* nodes in another order; the refinement has split the nodes.
C7_Witness ==
  /\ pc = "done" /\ Len(steps) = MaxK + 1
  /\ \E i \in 1..Len(graphA.nodes) :
       /\ oldIdToNewId[graphA.nodes[i].id][2] # graphA.nodes[i].id[2]
       /\ graphB.nodes[i].id # oldIdToNewId[graphA.nodes[i].id]
       /\ Len(adjA[graphA.nodes[i].id]) >= 1
  /\ Len(steps[MaxK + 1].mappings) >= 2

\* C8: in every step isIsomorphicCandidate is true exactly when the two
\* histograms have the same keys and the same count for every key.
C8_CandidateTest ==
  \A i \in 1..Len(steps) :
    LET s == steps[i] IN
    s.isIsomorphicCandidate <=>
      /\ DOMAIN s.labelCountsA = DOMAIN s.labelCountsB
      /\ \A l \in DOMAIN s.labelCountsA : s.labelCountsA[l] = s.labelCountsB[l]

\* As many keys in both histograms, the same counts, yet one key of each is
\* missing from the other: the verdict is false.
C8_Witness ==
  \E i \in 1..Len(steps) :
    LET s == steps[i] IN
    /\ Cardinality(DOMAIN s.labelCountsA) = Cardinality(DOMAIN s.labelCountsB)
    /\ DOMAIN s.labelCountsA # DOMAIN s.labelCountsB
    /\ DOMAIN s.labelCountsA \cap DOMAIN s.labelCountsB # {}
    /\ ~s.isIsomorphicCandidate

\* C9: at step 0 the i-th smallest distinct initial label of the two graphs
\* has LabelId i, so two nodes have the same LabelId exactly when they have
\* the same raw initial label.
C9_InitialCanonicalization ==
  Len(steps) >= 1 =>
    LET raw == {RawLabel(u) : u \in PooledNodes}
        rank(x) == Cardinality({y \in raw : y <= x})
    IN /\ \A u \in PooledNodes : Lab(steps[1], u) = toString(rank(RawLabel(u)))
       /\ \A u \in PooledNodes : \A v \in PooledNodes :
            Lab(steps[1], u) = Lab(steps[1], v) <=> RawLabel(u) = RawLabel(v)

\* Only the larger initial value occurs in graph A and both occur in B, the
\* larger one first.
C9_Witness ==
  /\ Len(steps) >= 1
  /\ Len(graphA.nodes) >= 1 /\ Len(graphB.nodes) >= 2
  /\ \A i \in 1..Len(graphA.nodes) : graphA.nodes[i].originalLabel = MaxInitLabel
  /\ graphB.nodes[1].originalLabel = MaxInitLabel
  /\ graphB.nodes[2].originalLabel = 1

\* C10: at every step k >= 1 two nodes have the same label exactly when
\* they had the same label at step k-1 and their neighbours' labels at step
\* k-1 form the same multiset.
C10_RefinementStep ==
  \A i \in 2..Len(steps) :
    \A u \in PooledNodes : \A v \in PooledNodes :
      Lab(steps[i], u) = Lab(steps[i], v) <=>
        /\ Lab(steps[i - 1], u) = Lab(steps[i - 1], v)
        /\ SameNeighbourLabels(steps[i - 1], u, v)

\* A node of A and a node of B with two neighbours of different labels each,
\* met in opposite orders, get the same label.
C10_Witness ==
  /\ Len(steps) >= 2
  /\ \E u \in PooledNodes : \E v \in PooledNodes :
       /\ u[1] = "A" /\ v[1] = "B"
       /\ Lab(steps[2], u) = Lab(steps[2], v)
       /\ Len(adjA[u[2]]) = 2 /\ Len(adjB[v[2]]) = 2
       /\ Lab(steps[1], <<"A", adjA[u[2]][1]>>) # Lab(steps[1], <<"A", adjA[u[2]][2]>>)
       /\ Lab(steps[1], <<"A", adjA[u[2]][1]>>) = Lab(steps[1], <<"B", adjB[v[2]][2]>>)

\* C11: when some link of graph A or graph B has a source or a target that is
\* no node id of that graph, the call fails before step 0 is built: no step
\* is ever produced and the call never returns a result.
C11_InvalidGraphReference ==
  (HasDanglingLink(graphA) \/ HasDanglingLink(graphB)) =>
    (steps = << >> /\ pc # "done")

\* C12: when maxK < 0 the call fails and no step is usable; a call that
\* returns has produced the full sequence of maxK+1 steps.
C12_InvalidHorizon ==
  /\ maxK < 0 => (steps = << >> /\ pc # "done")
  /\ pc = "done" => (maxK >= 0 /\ Len(steps) = maxK + 1)

\* The engine is running on the two graphs of the given scenario.
IsScenario(type) ==
  graphA = getScenario(type).graphA /\ graphB = getScenario(type).graphB

\* C13: in the CYCLES scenario, at every k in 0..5, each histogram has exactly
\* one key, with count 6, and isIsomorphicCandidate is true.
C13_Cycles ==
  IsScenario("CYCLES") =>
    \A i \in 1..Len(steps) :
      LET s == steps[i] IN
      /\ s.k \in 0..MAX_K
      /\ Cardinality(DOMAIN s.labelCountsA) = 1
      /\ Cardinality(DOMAIN s.labelCountsB) = 1
      /\ \A l \in DOMAIN s.labelCountsA : s.labelCountsA[l] = 6
      /\ \A l \in DOMAIN s.labelCountsB : s.labelCountsB[l] = 6
      /\ s.isIsomorphicCandidate

C13_Witness ==
  /\ IsScenario("CYCLES")
  /\ pc = "done"
  /\ Len(steps) = MAX_K + 1

\* C14: in the NON_ISOMORPHIC_SIMPLE scenario, at k = 0, labelCountsA has two
\* keys, with count 3 for initial label 1 and count 2 for initial label 2,
\* labelCountsB has a key with count 1 (the centre, initial label 3) that is
\* no key of labelCountsA, and isIsomorphicCandidate is false.
C14_PathVersusStar ==
  (IsScenario("NON_ISOMORPHIC_SIMPLE") /\ Len(steps) >= 1) =>
    LET s == steps[1]
        key(v) == CHOOSE l \in {s.mappings[i].label : i \in 1..Len(s.mappings)} :
                    \E i \in 1..Len(s.mappings) :
                      /\ s.mappings[i].label = l
                      /\ s.mappings[i].signature = InitialPrefix \o toString(v)
    IN /\ s.k = 0
       /\ DOMAIN s.labelCountsA = {key(1), key(2)}
       /\ key(1) # key(2)
       /\ s.labelCountsA[key(1)] = 3
       /\ s.labelCountsA[key(2)] = 2
       /\ key(3) \in DOMAIN s.labelCountsB
       /\ s.labelCountsB[key(3)] = 1
       /\ key(3) \notin DOMAIN s.labelCountsA
       /\ s.nodeDataB[<<"B", 0>>].label = key(3)
       /\ ~s.isIsomorphicCandidate

C14_Witness ==
  /\ IsScenario("NON_ISOMORPHIC_SIMPLE")
  /\ Len(steps) >= 1
  /\ steps[1].labelCountsB[steps[1].nodeDataB[<<"B", 0>>].label] = 1

\* C15: for the house graph against any id-permuted copy of itself,
\* isIsomorphicCandidate is true at every k; at k = 1 the two base nodes next
\* to the apex (A0, A1) share one LabelId, the two other base nodes (A2, A3)
\* share another, and their images in the copy carry the same two LabelIds.
C15_House ==
  (graphA = HouseGraph /\ pc # "scenario") =>
    /\ \A i \in 1..Len(steps) : steps[i].isIsomorphicCandidate
    /\ Len(steps) >= 2 =>
         LET s == steps[2]
             labA(i) == s.nodeDataA[<<"A", i>>].label
             labB(i) == s.nodeDataB[oldIdToNewId[<<"A", i>>]].label
         IN /\ s.k = 1
            /\ labA(0) = labA(1)
            /\ labA(2) = labA(3)
            /\ labA(0) # labA(2)
            /\ \A i \in 0..3 : labB(i) = labA(i)

\* The copy renames the apex and reorders the nodes, and the run is over.
C15_Witness ==
  /\ graphA = HouseGraph
  /\ pc = "done"
  /\ Len(steps) = MAX_K + 1
  /\ oldIdToNewId[<<"A", 4>>] # <<"B", 4>>
  /\ graphB.nodes[1].id # oldIdToNewId[<<"A", 0>>]

\* C16: an empty node set is no error: the call still returns maxK+1 steps; a
\* graph without nodes has an empty histogram at every step; when both graphs
\* are empty, uniqueLabels and mappings are empty and isIsomorphicCandidate is
\* true at every step; when exactly one graph is empty, isIsomorphicCandidate
\* is false at every step.
C16_EmptyGraphs ==
  LET emptyA == Len(graphA.nodes) = 0
      emptyB == Len(graphB.nodes) = 0
  IN /\ (pc = "done" /\ (emptyA \/ emptyB)) => Len(steps) = maxK + 1
     /\ \A i \in 1..Len(steps) :
          LET s == steps[i] IN
          /\ emptyA => DOMAIN s.labelCountsA = {}
          /\ emptyB => DOMAIN s.labelCountsB = {}
          /\ (emptyA /\ emptyB) =>
                /\ s.uniqueLabels = << >>
                /\ s.mappings = << >>
                /\ s.isIsomorphicCandidate
          /\ (emptyA # emptyB) => ~s.isIsomorphicCandidate

\* A run on an empty graph A and a non-empty graph B is over.
C16_Witness ==
  /\ Len(graphA.nodes) = 0
  /\ Len(graphB.nodes) > 0
  /\ pc = "done"
  /\ Len(steps) = MaxK + 1
  /\ ~steps[Len(steps)].isIsomorphicCandidate

\* A run on two empty graphs is over.
C16_WitnessBothEmpty ==
  /\ Len(graphA.nodes) = 0
  /\ Len(graphB.nodes) = 0
  /\ pc = "done"
  /\ Len(steps) = MaxK + 1
  /\ steps[Len(steps)].isIsomorphicCandidate

\* How often x occurs in the array.
CountIn(arr, x) == Cardinality({j \in 1..Len(arr) : arr[j] = x})

\* The label that the mapping list of step record s gives to a signature.
MappedLabel(s, sig) ==
  LET i == CHOOSE j \in 1..Len(s.mappings) : s.mappings[j].signature = sig
  IN s.mappings[i].label

\* C18: per-node state is keyed by (graph, id).  When both graphs hold a node
\* with the same id, the record of each graph holds under that id the label of
\* that graph's own node, computed from that graph's links and that graph's
\* previous labels, and the counts of each histogram sum to the number of
\* nodes of its graph.
C18_KeyedByGraphAndId ==
  \A id \in NodeIds(graphA.nodes) \cap NodeIds(graphB.nodes) :
    \A i \in 1..Len(steps) : \A g \in {"A", "B"} :
      LET s == steps[i]
          u == <<g, id>>
          d == IF g = "A" THEN s.nodeDataA[id] ELSE s.nodeDataB[id]
          e == d.expandedSignature
      IN /\ i = 1 =>
              /\ e.self = toString(RawLabel(u))
              /\ e.neighbors = << >>
              /\ d.label = MappedLabel(s, InitialPrefix \o e.self)
         /\ i >= 2 =>
              /\ e.self = Lab(steps[i - 1], u)
              /\ \A l \in StepLabels(steps[i - 1]) \cup Range(e.neighbors) :
                   CountIn(e.neighbors, l) = NeighbourCount(steps[i - 1], u, l)
              /\ d.signature = Signature(e.self, e.neighbors)
              /\ d.label = MappedLabel(s, d.signature)
         /\ SumCounts(s.labelCountsA) = Len(graphA.nodes)
         /\ SumCounts(s.labelCountsB) = Len(graphB.nodes)

\* Both graphs hold the id A0; the two nodes have neighbours and, after two
\* refinement steps, different labels.
C18_Witness ==
  /\ Len(steps) >= 3
  /\ IdOf("A", 0) \in NodeIds(graphA.nodes) /\ IdOf("A", 0) \in NodeIds(graphB.nodes)
  /\ adjA[IdOf("A", 0)] # << >> /\ adjB[IdOf("A", 0)] # << >>
  /\ steps[2].nodeDataA[IdOf("A", 0)].label # steps[2].nodeDataB[IdOf("A", 0)].label
  /\ steps[3].nodeDataA[IdOf("A", 0)].label # steps[3].nodeDataB[IdOf("A", 0)].label

\* C19: in the NON_ISOMORPHIC_REGULAR scenario isIsomorphicCandidate is true
\* at k = 0 and false at step 1.
C19_DumbbellVersusChordedCircle ==
  IsScenario("NON_ISOMORPHIC_REGULAR") =>
    /\ Len(steps) >= 1 => steps[1].isIsomorphicCandidate
    /\ Len(steps) >= 2 => ~steps[2].isIsomorphicCandidate

\* What the engine computes on that scenario: the verdict is true at every k.
C19_NeverToldApart ==
  IsScenario("NON_ISOMORPHIC_REGULAR") =>
    \A i \in 1..Len(steps) : steps[i].isIsomorphicCandidate

\* C20: in the NON_ISOMORPHIC_DEGREE scenario isIsomorphicCandidate is true at
\* k = 0 and false at k = 1 or at k = 2.
C20_PathVersusTwoPaths ==
  IsScenario("NON_ISOMORPHIC_DEGREE") =>
    /\ Len(steps) >= 1 => steps[1].isIsomorphicCandidate
    /\ Len(steps) >= 3 =>
         (~steps[2].isIsomorphicCandidate \/ ~steps[3].isIsomorphicCandidate)

C20_Witness ==
  /\ IsScenario("NON_ISOMORPHIC_DEGREE")
  /\ Len(steps) >= 3
  /\ steps[1].isIsomorphicCandidate
  /\ ~steps[2].isIsomorphicCandidate

\* C17: no state survives a call.  The label counter is 0 when a call starts,
\* and in any sequence of calls, two calls with the same arguments have the
\* same result (step records with the same LabelIds, histograms, mappings and
\* verdicts), whatever calls ran in between.
C17_NoStateSurvives ==
  LET sameArgs(c) == c.graphA = graphA /\ c.graphB = graphB /\ c.maxK = maxK
  IN /\ pc = "start" => globalLabelCounter = 0
     /\ \A i \in 1..Len(history) : \A j \in 1..Len(history) :
          (/\ history[i].graphA = history[j].graphA
           /\ history[i].graphB = history[j].graphB
           /\ history[i].maxK = history[j].maxK) => history[i].steps = history[j].steps
     /\ pc = "done" =>
          \A i \in 1..Len(history) : sameArgs(history[i]) => history[i].steps = steps

\* The third call has the arguments of the first and not those of the second,
\* and has returned a refinement step on two non-empty graphs.
C17_Witness ==
  /\ pc = "done"
  /\ Len(history) = 2
  /\ history[1].graphA = graphA /\ history[1].graphB = graphB /\ history[1].maxK = maxK
  /\ history[2].graphA # graphA
  /\ Len(steps) >= 2
  /\ Len(graphA.nodes) > 0 /\ Len(graphB.nodes) > 0

\* The signatures of the nodes of both graphs in step record s.
NodeSignatures(s) ==
  {s.nodeDataA[id].signature : id \in DOMAIN s.nodeDataA}
  \cup {s.nodeDataB[id].signature : id \in DOMAIN s.nodeDataB}

\* C21: at every step k >= 1 the distinct signatures of all nodes of both
\* graphs are pooled and sorted in lexicographic string order, and LabelIds
\* are minted in that order: mappings lists each distinct signature exactly
\* once in ascending string order, and the numeric LabelIds along mappings
\* are consecutive and strictly increasing.
C21_PooledLexicographicOrder ==
  \A i \in 2..Len(steps) :
    LET m == steps[i].mappings IN
    /\ {m[j].signature : j \in 1..Len(m)} = NodeSignatures(steps[i])
    /\ \A j \in 1..(Len(m) - 1) :
         /\ StrLess(m[j].signature, m[j + 1].signature)
         /\ parseInt(m[j + 1].label) = parseInt(m[j].label) + 1

\* Two adjacent entries of a mapping list in which the earlier signature
\* starts with the numerically greater label (10 before 9).
C21_Witness ==
  \E i \in 2..Len(steps) :
    LET s == steps[i]
        selves == {<<s.nodeDataA[id].expandedSignature.self, s.nodeDataA[id].label>> :
                     id \in DOMAIN s.nodeDataA}
                  \cup {<<s.nodeDataB[id].expandedSignature.self, s.nodeDataB[id].label>> :
                          id \in DOMAIN s.nodeDataB}
    IN \E x \in selves : \E y \in selves :
         /\ parseInt(x[1]) > parseInt(y[1])
         /\ parseInt(x[2]) + 1 = parseInt(y[2])

\* C22: for every step k >= 1 and every node, the signature is the string
\* "(s,[n1,...,nd])" where s is the node's LabelId of step k-1 and n1..nd are
\* the LabelIds of step k-1 of all its neighbours, one entry per adjacency
\* entry, in non-decreasing order of their integer value; at k = 0 the
\* signature is "[v]" with v the raw initial label.
C22_SignatureFormat ==
  \A i \in 1..Len(steps) : \A u \in PooledNodes :
    LET s == steps[i]
        d == IF u[1] = "A" THEN s.nodeDataA[u[2]] ELSE s.nodeDataB[u[2]]
        ns == d.expandedSignature.neighbors
    IN /\ i = 1 => d.signature = <<Ch.lbrack>> \o toString(RawLabel(u)) \o <<Ch.rbrack>>
       /\ i >= 2 =>
            /\ \A l \in StepLabels(steps[i - 1]) \cup Range(ns) :
                 CountIn(ns, l) = NeighbourCount(steps[i - 1], u, l)
            /\ \A j \in 1..(Len(ns) - 1) : parseInt(ns[j]) <= parseInt(ns[j + 1])
            /\ d.signature = <<Ch.lparen>> \o Lab(steps[i - 1], u) \o <<Ch.comma, Ch.lbrack>>
                               \o Join(ns, <<Ch.comma>>) \o <<Ch.rbrack, Ch.rparen>>

\* A node whose neighbour list holds 9 before 10: numeric order, where the
\* order of strings would put 10 first.
C22_Witness ==
  \E i \in 2..Len(steps) : \E u \in PooledNodes :
    LET s == steps[i]
        d == IF u[1] = "A" THEN s.nodeDataA[u[2]] ELSE s.nodeDataB[u[2]]
        ns == d.expandedSignature.neighbors
    IN \E j \in 1..(Len(ns) - 1) :
         parseInt(ns[j]) < parseInt(ns[j + 1]) /\ StrLess(ns[j + 1], ns[j])

\* C23: at every step, uniqueLabels contains exactly the LabelIds that are
\* keys of labelCountsA or of labelCountsB, each once, in strictly ascending
\* numeric order; it also equals the set of LabelIds listed in that step's
\* mappings.
C23_UniqueLabels ==
  \A i \in 1..Len(steps) :
    LET s == steps[i]
        ul == s.uniqueLabels
    IN /\ Range(ul) = DOMAIN s.labelCountsA \cup DOMAIN s.labelCountsB
       /\ \A j \in 1..(Len(ul) - 1) : parseInt(ul[j]) < parseInt(ul[j + 1])
       /\ Range(ul) = {s.mappings[j].label : j \in 1..Len(s.mappings)}

\* A step whose uniqueLabels holds 9 before 10, a key of graph A's histogram
\* alone and a key of graph B's histogram alone.
C23_Witness ==
  \E i \in 1..Len(steps) :
    LET s == steps[i]
        ul == s.uniqueLabels
    IN /\ \E j \in 1..(Len(ul) - 1) : StrLess(ul[j + 1], ul[j])
       /\ DOMAIN s.labelCountsA \ DOMAIN s.labelCountsB # {}
       /\ DOMAIN s.labelCountsB \ DOMAIN s.labelCountsA # {}

\* C24: no early exit.  The engine performs exactly maxK refinement rounds
\* after step 0 even when the partition has already stabilised; in every
\* round k in 1..maxK with at least one node, fresh LabelIds are minted, so
\* every node's LabelId at step k is numerically greater than every LabelId
\* of step k-1 and differs from the node's own previous LabelId.
C24_NoEarlyExit ==
  /\ (pc = "done" /\ maxK >= 0) => Len(steps) = maxK + 1
  /\ \A i \in 2..Len(steps) :
       /\ steps[i].k = i - 1
       /\ PooledNodes # {} => Len(steps[i].mappings) > 0
       /\ \A u \in PooledNodes :
            /\ Lab(steps[i], u) # Lab(steps[i - 1], u)
            /\ \A l \in StepLabels(steps[i - 1]) :
                 parseInt(Lab(steps[i], u)) > parseInt(l)

\* The partition is the same at steps 0, 1 and 2, two nodes carry different
\* labels, and the run went through every round.
C24_Witness ==
  /\ pc = "done"
  /\ maxK = MaxK
  /\ Len(steps) = MaxK + 1
  /\ Len(steps[1].uniqueLabels) = 2
  /\ \A i \in 2..Len(steps) : Len(steps[i].uniqueLabels) = 2

\* C25: the verdict is monotone over steps: if isIsomorphicCandidate is false
\* at step k then it is false at every later step.
C25_VerdictMonotone ==
  \A i \in 1..Len(steps) : \A j \in (i + 1)..Len(steps) :
    ~steps[i].isIsomorphicCandidate => ~steps[j].isIsomorphicCandidate

\* The verdict is true at step 0 and false at steps 1 and 2.
C25_Witness ==
  /\ Len(steps) >= 3
  /\ steps[1].isIsomorphicCandidate
  /\ ~steps[2].isIsomorphicCandidate
  /\ ~steps[3].isIsomorphicCandidate

\* The partition of the pooled nodes into label classes in step record s.
Partition(s) ==
  {{u \in PooledNodes : Lab(s, u) = Lab(s, v)} : v \in PooledNodes}

\* The multiset of the counts of a histogram: how many keys have each count.
ClassSizes(c) ==
  [n \in {c[l] : l \in DOMAIN c} |-> Cardinality({l \in DOMAIN c : c[l] = n})]

\* C26: stabilisation is permanent.  The number of distinct LabelIds per step
\* (the size of uniqueLabels) never decreases from one step to the next and
\* never exceeds |nodes(A)| + |nodes(B)|; and if it is equal at steps k-1 and
\* k, then the partition of the pooled nodes into label classes, the multiset
\* of class sizes per graph and isIsomorphicCandidate are the same at every
\* step from k-1 on.
C26_StabilisationPermanent ==
  \A i \in 1..Len(steps) :
    /\ Len(steps[i].uniqueLabels) <= Len(graphA.nodes) + Len(graphB.nodes)
    /\ i >= 2 => Len(steps[i].uniqueLabels) >= Len(steps[i - 1].uniqueLabels)
    /\ (i >= 2 /\ Len(steps[i].uniqueLabels) = Len(steps[i - 1].uniqueLabels)) =>
         \A j \in i..Len(steps) :
           /\ Partition(steps[j]) = Partition(steps[i - 1])
           /\ ClassSizes(steps[j].labelCountsA) = ClassSizes(steps[i - 1].labelCountsA)
           /\ ClassSizes(steps[j].labelCountsB) = ClassSizes(steps[i - 1].labelCountsB)
           /\ steps[j].isIsomorphicCandidate = steps[i - 1].isIsomorphicCandidate

\* Step 1 has as many labels as step 0, more than one class and a false
\* verdict, and a further step has been computed.
C26_Witness ==
  /\ Len(steps) >= 3
  /\ Len(steps[2].uniqueLabels) = Len(steps[1].uniqueLabels)
  /\ Len(steps[1].uniqueLabels) >= 2
  /\ ~steps[3].isIsomorphicCandidate
  /\ Len(graphA.links) > 0 /\ Len(graphB.links) > 0

\* The number of labels grows from step 0 to step 1 and again to step 2.
C26_WitnessGrowing ==
  /\ Len(steps) >= 3
  /\ Len(steps[1].uniqueLabels) < Len(steps[2].uniqueLabels)
  /\ Len(steps[2].uniqueLabels) < Len(steps[3].uniqueLabels)

\* C27: argument symmetry.  runWLAlgorithm(B, A, maxK) gives every node the
\* same LabelId at every step as runWLAlgorithm(A, B, maxK), with the A-side
\* and the B-side fields exchanged, and the same uniqueLabels, mappings and
\* isIsomorphicCandidate; and areCountsEqual gives the same answer on the two
\* histograms of a step in either order.
C27_ArgumentSymmetry ==
  pc = "done" =>
    LET r == runWLAlgorithm(graphB, graphA, maxK).steps
    IN /\ Len(r) = Len(steps)
       /\ \A i \in 1..Len(steps) :
            /\ r[i].nodeDataA = steps[i].nodeDataB
            /\ r[i].nodeDataB = steps[i].nodeDataA
            /\ r[i].labelCountsA = steps[i].labelCountsB
            /\ r[i].labelCountsB = steps[i].labelCountsA
            /\ r[i].uniqueLabels = steps[i].uniqueLabels
            /\ r[i].mappings = steps[i].mappings
            /\ r[i].isIsomorphicCandidate = steps[i].isIsomorphicCandidate
            /\ areCountsEqual(steps[i].labelCountsA, steps[i].labelCountsB)
                 = areCountsEqual(steps[i].labelCountsB, steps[i].labelCountsA)

\* The run is over on two graphs of different sizes, where every key of graph
\* A's last histogram is a key of graph B's with the same count.
C27_Witness ==
  /\ pc = "done"
  /\ Len(steps) = MaxK + 1
  /\ Len(graphA.nodes) > 0
  /\ Len(graphA.nodes) < Len(graphB.nodes)
  /\ LET s == steps[Len(steps)]
     IN \A l \in DOMAIN s.labelCountsA :
          l \in DOMAIN s.labelCountsB /\ s.labelCountsA[l] = s.labelCountsB[l]

\* The graph without the links that have an endpoint that is no node of it.
WithoutDanglingLinks(g) ==
  [nodes |-> g.nodes,
   links |-> SelectSeq(g.links, LAMBDA l : l.source \in NodeIds(g.nodes)
                                           /\ l.target \in NodeIds(g.nodes))]

\* How many entries x the links of g owe to the neighbour list of node id.
OwedEntries(g, id, x) ==
  LET ok == {j \in 1..Len(g.links) : g.links[j].source \in NodeIds(g.nodes)
                                      /\ g.links[j].target \in NodeIds(g.nodes)}
  IN Cardinality({j \in ok : g.links[j].source = id /\ g.links[j].target = x})
     + Cardinality({j \in ok : g.links[j].target = id /\ g.links[j].source = x})

\* C28: a link whose source or target is no node id of its graph contributes
\* to no neighbour list, so the whole result equals the result for the same
\* graphs with all such links removed; every other link {u,v} adds v once to
\* u's neighbour list and u once to v's (duplicate links add repeated
\* entries).
C28_DanglingLinksSkipped ==
  /\ pc # "start" =>
       /\ DOMAIN adjA = NodeIds(graphA.nodes)
       /\ DOMAIN adjB = NodeIds(graphB.nodes)
       /\ \A id \in DOMAIN adjA : \A x \in Range(adjA[id]) \cup NodeIds(graphA.nodes) :
            CountIn(adjA[id], x) = OwedEntries(graphA, id, x)
       /\ \A id \in DOMAIN adjB : \A x \in Range(adjB[id]) \cup NodeIds(graphB.nodes) :
            CountIn(adjB[id], x) = OwedEntries(graphB, id, x)
  /\ pc = "done" =>
       steps = runWLAlgorithm(WithoutDanglingLinks(graphA),
                              WithoutDanglingLinks(graphB), maxK).steps

\* The run is over on a graph that has one link between two of its nodes and
\* one link from a node to an id that is no node.
C28_Witness ==
  /\ pc = "done"
  /\ Len(steps) >= 2
  /\ HasDanglingLink(graphA)
  /\ Len(WithoutDanglingLinks(graphA).links) = 1
  /\ \E j \in 1..Len(graphA.links) :
       /\ graphA.links[j].source \in NodeIds(graphA.nodes)
       /\ graphA.links[j].target \notin NodeIds(graphA.nodes)

\* The run is over on a graph with the same link twice.
C28_WitnessDuplicate ==
  /\ pc = "done"
  /\ Len(steps) >= 2
  /\ \E id \in DOMAIN adjB : \E x \in DOMAIN adjB : x # id /\ CountIn(adjB[id], x) = 2

(***************************************************************************)
(* The App component: step navigation and auto-play.                       *)
(*                                                                         *)
(* A state update (setK, setIsPlaying, ...) changes the state cell; the     *)
(* handlers keep the k and isPlaying of the render that created them until  *)
(* the next render, and the effect that starts or clears the timer runs     *)
(* after that render.  How soon a render and its effect follow an update    *)
(* is the scheduler's choice, so Render and Effect are steps of their own   *)
(* and a timer tick or a click may come before them.                        *)
(***************************************************************************)
ScenarioTypes ==
  {"ISOMORPHIC_PAIR", "ISOMORPHIC_COMPLEX", "ISOMORPHIC_TREES", "ISOMORPHIC_GRID_3X3",
   "ISOMORPHIC_LADDER", "NON_ISOMORPHIC_SIMPLE", "NON_ISOMORPHIC_REGULAR",
   "NON_ISOMORPHIC_DEGREE", "CYCLES", "GRID_VS_RANDOM"}

\* The nodes a click can select: one of graph A, one of graph B.
SelectableIds == {<<"A", 0>>, <<"B", 0>>}

\* const simulation = useMemo(() => runWLAlgorithm(graphA, graphB, MAX_K), ...)
simulation(type) ==
  runWLAlgorithm(getScenario(type).graphA, getScenario(type).graphB, MAX_K)

\* handleNext: k < MAX_K && setK(k + 1), on the k of the last render.
CanNextAlways(renderedK) == TRUE

CanNext(renderedK) == renderedK < MAX_K

\* handlePrev: k > 0 && setK(k - 1), on the k of the last render.
CanPrev(renderedK) == renderedK > 0

\* The updater the timer hands to setK: the next k, and whether it stops the
\* auto-play (setIsPlaying(false)).
AutoPlayUpdaterNoStop(prev) ==
  IF prev < MAX_K THEN [k |-> prev + 1, stop |-> FALSE] ELSE [k |-> prev, stop |-> FALSE]

AutoPlayUpdater(prev) ==
  IF prev < MAX_K THEN [k |-> prev + 1, stop |-> FALSE] ELSE [k |-> prev, stop |-> TRUE]

\* What the UI steps leave alone: the variables of runWLAlgorithm.
engine == <<graphA, graphB, maxK, oldIdToNewId, pc, adjA, adjB, steps,
            globalLabelCounter, currentLabelsA, currentLabelsB, sortedInitLabels,
            initLabelMap, k, history>>

HandleNext ==
  /\ CanNext(rendered.k)
  /\ viewK' = rendered.k + 1
  /\ UNCHANGED <<engine, scenarioType, isPlaying, selectedNodeId, rendered, playInterval>>

HandlePrev ==
  /\ CanPrev(rendered.k)
  /\ viewK' = rendered.k - 1
  /\ UNCHANGED <<engine, scenarioType, isPlaying, selectedNodeId, rendered, playInterval>>

HandleReset ==
  /\ isPlaying' = FALSE
  /\ viewK' = 0
  /\ selectedNodeId' = Null
  /\ UNCHANGED <<engine, scenarioType, rendered, playInterval>>

HandleScenarioChange ==
  /\ scenarioType' \in ScenarioTypes
  /\ isPlaying' = FALSE
  /\ viewK' = 0
  /\ selectedNodeId' = Null
  /\ UNCHANGED <<engine, rendered, playInterval>>

\* The play/pause button: setIsPlaying(!isPlaying), on the isPlaying of the
\* last render.
TogglePlay ==
  /\ isPlaying' = ~rendered.isPlaying
  /\ UNCHANGED <<engine, scenarioType, viewK, selectedNodeId, rendered, playInterval>>

\* onNodeClick = setSelectedNodeId.
SelectNode ==
  /\ selectedNodeId' \in SelectableIds
  /\ UNCHANGED <<engine, scenarioType, viewK, isPlaying, rendered, playInterval>>

\* The callback of setInterval runs while the timer is live.
Tick ==
  /\ playInterval
  /\ viewK' = AutoPlayUpdater(viewK).k
  /\ isPlaying' = (IF AutoPlayUpdater(viewK).stop THEN FALSE ELSE isPlaying)
  /\ UNCHANGED <<engine, scenarioType, selectedNodeId, rendered, playInterval>>

\* A render after an update: the handlers close over the current k and
\* isPlaying.
Render ==
  /\ rendered # [k |-> viewK, isPlaying |-> isPlaying]
  /\ rendered' = [k |-> viewK, isPlaying |-> isPlaying]
  /\ UNCHANGED <<engine, scenarioType, viewK, isPlaying, selectedNodeId, playInterval>>

\* The effect on [isPlaying], after a render in which isPlaying changed: the
\* clean-up clears the timer and, if isPlaying, setInterval starts one.
Effect ==
  /\ playInterval # rendered.isPlaying
  /\ playInterval' = rendered.isPlaying
  /\ UNCHANGED <<engine, scenarioType, viewK, isPlaying, selectedNodeId, rendered>>

InitUI ==
  /\ graphA = [nodes |-> << >>, links |-> << >>]
  /\ graphB = [nodes |-> << >>, links |-> << >>]
  /\ maxK = MAX_K
  /\ oldIdToNewId = << >>
  /\ pc = "done"
  /\ Blank
  /\ Mounted

NextUI ==
  \/ HandleNext
  \/ HandlePrev
  \/ HandleReset
  \/ HandleScenarioChange
  \/ TogglePlay
  \/ SelectNode
  \/ Tick
  \/ Render
  \/ Effect

SpecUI == InitUI /\ [][NextUI]_vars

\* Auto-play left to itself: the user has pressed play at some step of some
\* scenario and touches nothing more.  The timer fires again and again while
\* it is live, and a pending render or effect is eventually run.
InitAutoPlay ==
  /\ graphA = [nodes |-> << >>, links |-> << >>]
  /\ graphB = [nodes |-> << >>, links |-> << >>]
  /\ maxK = MAX_K
  /\ oldIdToNewId = << >>
  /\ pc = "done"
  /\ Blank
  /\ scenarioType \in ScenarioTypes
  /\ viewK \in 0..MAX_K
  /\ isPlaying = TRUE
  /\ selectedNodeId \in {Null} \cup SelectableIds
  /\ rendered \in {[k |-> viewK, isPlaying |-> FALSE], [k |-> viewK, isPlaying |-> TRUE]}
  /\ playInterval = FALSE

NextAutoPlay == Tick \/ Render \/ Effect

SpecAutoPlay ==
  /\ InitAutoPlay
  /\ [][NextAutoPlay]_vars
  /\ WF_vars(Tick)
  /\ WF_vars(Render)
  /\ WF_vars(Effect)

(***************************************************************************)
(* C29: the step index of the UI stays in range.  After any interleaving   *)
(* of Next, Prev, Reset, scenario change, play/pause and timer ticks, with *)
(* the Next and Prev handlers acting on the k of the last render, the k of *)
(* the state and the k of the render are both in 0..MAX_K, so that          *)
(* simulation.steps[k] is defined (checked on the scenarios whose graphs   *)
(* are written out); Reset and a scenario change set k = 0, isPlaying =    *)
(* false and selectedNodeId = null.                                        *)
(***************************************************************************)
C29_StepIndexInRange ==
  /\ [](/\ viewK \in 0..MAX_K
        /\ rendered.k \in 0..MAX_K
        /\ scenarioType \in FixedScenarioTypes =>
             /\ Len(simulation(scenarioType).steps) = MAX_K + 1
             /\ viewK + 1 \in DOMAIN simulation(scenarioType).steps
             /\ rendered.k + 1 \in DOMAIN simulation(scenarioType).steps)
  /\ [][(HandleReset \/ HandleScenarioChange) =>
          (viewK' = 0 /\ isPlaying' = FALSE /\ selectedNodeId' = Null)]_vars

\* The auto-play has reached the last step and stopped while the handlers
\* still hold an earlier k and the timer is still live.
C29_Witness ==
  /\ viewK = MAX_K
  /\ rendered.k < MAX_K
  /\ rendered.isPlaying
  /\ ~isPlaying
  /\ playInterval
  /\ selectedNodeId # Null

====
